---- MODULE Spec2Model ----
(***************************************************************************)
(* Model of package parse of rain: the tag-aware YAML reader               *)
(* (tags, init, transformGetAtt, UnmarshalYAMLTag, Read, ReadFile,         *)
(* ReadString) and the round-trip verifier VerifyOutput.                   *)
(*                                                                         *)
(* Go values of type interface{} are records with one shape,               *)
(*   [kind, str, seq, map]                                                 *)
(* kind "nil" (nil interface / nil map), "string", "slice"                 *)
(* ([]interface{}), "map" (map[string]interface{}).  A string is the       *)
(* sequence of its characters, so that splitting on "." is computed.  A    *)
(* map is the set of its entries [k, v] with pairwise different keys; map  *)
(* keys are atomic strings.                                                *)
(***************************************************************************)
EXTENDS Integers, Sequences, FiniteSets, TLC

VARIABLES
    op,       \* the operation that ran last
    args,     \* its arguments
    ret,      \* what it returned: [err, doc]
    source,   \* the document the caller holds (a Go map: shared, mutable)
    orig,     \* the caller's document as the read returned it
    prev,     \* the caller's document as it was before the last operation
    prevRet,  \* what the operation before the last one returned
    calls     \* number of consecutive VerifyOutput calls with the same arguments

vars == <<op, args, ret, source, orig, prev, prevRet, calls>>

----------------------------------------------------------------------------
(* Go values *)

NilV == [kind |-> "nil", str |-> <<>>, seq |-> <<>>, map |-> {}]
StringV(s) == [kind |-> "string", str |-> s, seq |-> <<>>, map |-> {}]
SliceV(xs) == [kind |-> "slice", str |-> <<>>, seq |-> xs, map |-> {}]
MapV(es) == [kind |-> "map", str |-> <<>>, seq |-> <<>>, map |-> es]
Entry(key, val) == [k |-> key, v |-> val]

KeysOf(m) == {e.k : e \in m.map}
Get(m, key) == (CHOOSE e \in m.map : e.k = key).v

----------------------------------------------------------------------------
(* var tags: the names registered with the YAML parser *)

tags ==
    <<"And", "Base64", "Cidr", "Equals", "FindInMap", "GetAZs", "GetAtt",
      "If", "ImportValue", "Join", "Not", "Or", "Ref", "Select", "Split",
      "Sub", "Transform">>

(* func init(): yaml.RegisterTagUnmarshaler("!"+tag, tagUnmarshaler) for
   every tag; the parser's registry after start-up *)
tagUnmarshalers == {"!" \o tags[i] : i \in 1..Len(tags)}

----------------------------------------------------------------------------
(* func transformGetAtt *)

SplitLimit == 2
OutLen == 2

(* strings.Index(s, "."): position of the first ".", 0 when there is none *)
IndexDot(s) ==
    IF \E i \in 1..Len(s) : s[i] = "."
    THEN CHOOSE i \in 1..Len(s) : s[i] = "." /\ \A j \in 1..(i - 1) : s[j] # "."
    ELSE 0

(* faulty variant of SplitN: the limit is ignored, every "." splits *)
RECURSIVE SplitEvery(_, _)
SplitEvery(s, n) ==
    IF IndexDot(s) = 0
    THEN <<s>>
    ELSE <<SubSeq(s, 1, IndexDot(s) - 1)>>
             \o SplitEvery(SubSeq(s, IndexDot(s) + 1, Len(s)), n)

(* strings.SplitN(s, ".", n) for n >= 1: at most n parts, the last one the
   unsplit remainder *)
RECURSIVE SplitN(_, _)
SplitN(s, n) ==
    IF n = 1 \/ IndexDot(s) = 0
    THEN <<s>>
    ELSE <<SubSeq(s, 1, IndexDot(s) - 1)>>
             \o SplitN(SubSeq(s, IndexDot(s) + 1, Len(s)), n - 1)

(* faulty variant of transformGetAtt: the string is not split *)
transformGetAttUnsplit(in) == in

(* out := make([]interface{}, 2); for i, v := range SplitN(s, ".", 2)
   { out[i] = v }: slots not assigned stay nil *)
transformGetAtt(in) ==
    IF in.kind = "string"
    THEN LET parts == SplitN(in.str, SplitLimit)
         IN SliceV([i \in 1..OutLen |->
                       IF i <= Len(parts) THEN StringV(parts[i]) ELSE NilV])
    ELSE in

----------------------------------------------------------------------------
(* func (t *tagUnmarshalerType) UnmarshalYAMLTag *)

(* faulty variant of TagPrefix: "Condition" is not exempted *)
TagPrefixRefOnly(tag) == IF tag = "Ref" THEN "" ELSE "Fn::"

TagPrefix(tag) == IF tag = "Ref" \/ tag = "Condition" THEN "" ELSE "Fn::"

UnmarshalYAMLTag(tag, value) ==
    LET key == TagPrefix(tag) \o tag
        val == IF key = "Fn::GetAtt" THEN transformGetAtt(value) ELSE value
    IN MapV({Entry(key, val)})

----------------------------------------------------------------------------
(* YAML text.  A text is [root, syntax]: syntax "bad" is text the converter
   rejects (an unterminated sequence such as "foo: ["); otherwise root is
   the node the text denotes.  A node is [kind, str, seq, map, tag]: tag is
   the name after "!" ("" when the node carries no tag), kind is "null",
   "scalar", "sequence" or "mapping". *)

NullNode == [kind |-> "null", str |-> <<>>, seq |-> <<>>, map |-> {}, tag |-> ""]
Scalar(s) == [kind |-> "scalar", str |-> s, seq |-> <<>>, map |-> {}, tag |-> ""]
SeqNode(xs) == [kind |-> "sequence", str |-> <<>>, seq |-> xs, map |-> {}, tag |-> ""]
MapNode(es) == [kind |-> "mapping", str |-> <<>>, seq |-> <<>>, map |-> es, tag |-> ""]
Tagged(t, n) == [n EXCEPT !.tag = t]

Text(n) == [root |-> n, syntax |-> "ok"]
BadText == [root |-> NullNode, syntax |-> "bad"]

----------------------------------------------------------------------------
(* errors: fmt.Errorf("<prefix>: %s", cause); a semantic difference carries
   the paths cmp.Diff reports *)

NoErr == [diff |-> {}, prefix |-> "", cause |-> ""]
Errorf(prefix, cause) == [diff |-> {}, prefix |-> prefix, cause |-> cause]

----------------------------------------------------------------------------
(* func ReadString: yamlwrapper.YAMLToJSON, then json.Unmarshal into a
   map[string]interface{} *)

(* the parser's decoding of one node: the node's own value, handed to the
   registered unmarshaler when the node's tag is registered; a tag that is
   not registered leaves the value as it is *)
RECURSIVE DecodeNode(_)
DecodeNode(n) ==
    LET raw == CASE n.kind = "null" -> NilV
                 [] n.kind = "scalar" -> StringV(n.str)
                 [] n.kind = "sequence" ->
                        SliceV([i \in 1..Len(n.seq) |-> DecodeNode(n.seq[i])])
                 [] n.kind = "mapping" ->
                        MapV({Entry(e.k, DecodeNode(e.v)) : e \in n.map})
    IN IF ("!" \o n.tag) \in tagUnmarshalers
       THEN UnmarshalYAMLTag(n.tag, raw)
       ELSE raw

(* parsed, err := yamlwrapper.YAMLToJSON([]byte(input)) *)
YAMLToJSON(input) ==
    IF input.syntax = "bad"
    THEN [err |-> "yaml: did not find expected node content", json |-> NilV]
    ELSE [err |-> "", json |-> DecodeNode(input.root)]

(* err = json.Unmarshal(parsed, &output), output a nil map before the call:
   an object fills the map, null leaves it nil, anything else is an error *)
jsonUnmarshal(parsed) ==
    CASE parsed.kind = "map" -> [err |-> "", output |-> parsed]
      [] parsed.kind = "nil" -> [err |-> "", output |-> NilV]
      [] OTHER -> [err |-> "json: cannot unmarshal into Go value of type map",
                   output |-> NilV]

(* faulty variant of ReadString: what was decoded is returned beside the
   decoder's error *)
ReadStringKeepsOutput(input) ==
    LET conv == YAMLToJSON(input)
        dec == jsonUnmarshal(conv.json)
    IN IF conv.err # ""
       THEN [err |-> Errorf("Invalid YAML", conv.err), doc |-> NilV]
       ELSE IF dec.err # ""
            THEN [err |-> Errorf("Invalid YAML", dec.err), doc |-> conv.json]
            ELSE [err |-> NoErr, doc |-> dec.output]

ReadString(input) ==
    LET conv == YAMLToJSON(input)
        dec == jsonUnmarshal(conv.json)
    IN IF conv.err # ""
       THEN [err |-> Errorf("Invalid YAML", conv.err), doc |-> NilV]
       ELSE IF dec.err # ""
            THEN [err |-> Errorf("Invalid YAML", dec.err), doc |-> NilV]
            ELSE [err |-> NoErr, doc |-> dec.output]

(* func Read: r is [ok, data], what ioutil.ReadAll gets from the stream *)
Read(r) ==
    IF ~r.ok
    THEN [err |-> Errorf("Unable to read input", "read error"), doc |-> NilV]
    ELSE ReadString(r.data)

(* func ReadFile: f is [ok, data], what ioutil.ReadFile gets for the name *)
ReadFile(f) ==
    IF ~f.ok
    THEN [err |-> Errorf("Unable to read file", "no such file"), doc |-> NilV]
    ELSE ReadString(f.data)

----------------------------------------------------------------------------
(* func VerifyOutput *)

(* a step of the path cmp reports: a map key or a slice index *)
KeyStep(key) == [name |-> key, index |-> 0]
IndexStep(idx) == [name |-> "", index |-> idx]

Result(x, y, d) == [diff |-> d, vx |-> x, vy |-> y]
Min(a, b) == IF a <= b THEN a ELSE b
Max(a, b) == IF a <= b THEN b ELSE a

(* faulty variant of trans: the test on the key is missing, every value is
   rewritten *)
transEveryKey(in) ==
    [in EXCEPT !.map = {Entry(e.k, transformGetAtt(e.v)) : e \in in.map}]

(* faulty variant of trans: nothing is rewritten *)
transNothing(in) == in

(* trans: for k, v := range in { if k == "Fn::GetAtt" { in[k] =
   transformGetAtt(v) } }; return in.  The map is rewritten in place and
   every other entry is left as it is; ranging over a nil map does nothing *)
trans(in) ==
    [in EXCEPT !.map = {Entry(e.k, IF e.k = "Fn::GetAtt"
                                   THEN transformGetAtt(e.v)
                                   ELSE e.v) : e \in in.map}]

(* cmp.Diff(source, validate, trans).  cmp tries its options at every step of
   the walk.  The transformer takes a map[string]interface{}, so it is
   applied to both values wherever the walk stands on two values of that
   type: at the root, and at every nested pair of maps reached through an
   interface (applyTransformer); what it returns is then compared as a map
   (compareMap).  Two values held in interfaces are compared only when both
   are non-nil and of one dynamic type (compareAny).  Slices are walked
   position by position (compareSlice).  Each operator returns both values
   as the walk leaves them, and the set of paths reported as different. *)
RECURSIVE compareAny(_, _, _)
RECURSIVE applyTransformer(_, _, _)
RECURSIVE compareMap(_, _, _)
RECURSIVE compareSlice(_, _, _)

(* faulty variant of applyTransformer: only the reference is rewritten *)
applyTransformerToSource(x, y, path) == compareMap(trans(x), y, path)

applyTransformer(x, y, path) == compareMap(trans(x), trans(y), path)

compareMap(x, y, path) ==
    LET both == KeysOf(x) \cap KeysOf(y)
        subs == {[at |-> key,
                  res |-> compareAny(Get(x, key), Get(y, key),
                                     Append(path, KeyStep(key)))] : key \in both}
        sub(key) == (CHOOSE c \in subs : c.at = key).res
    IN IF x.kind = "nil" \/ y.kind = "nil"
       THEN Result(x, y, IF x.kind = y.kind THEN {} ELSE {path})
       ELSE Result(
              MapV({Entry(e.k, IF e.k \in both THEN sub(e.k).vx ELSE e.v) : e \in x.map}),
              MapV({Entry(e.k, IF e.k \in both THEN sub(e.k).vy ELSE e.v) : e \in y.map}),
              UNION {c.res.diff : c \in subs}
                \cup {Append(path, KeyStep(key)) :
                        key \in (KeysOf(x) \cup KeysOf(y)) \ both})

compareSlice(x, y, path) ==
    LET n == Min(Len(x.seq), Len(y.seq))
        subs == {[at |-> i,
                  res |-> compareAny(x.seq[i], y.seq[i],
                                     Append(path, IndexStep(i)))] : i \in 1..n}
        sub(i) == (CHOOSE c \in subs : c.at = i).res
    IN Result(
         SliceV([i \in 1..Len(x.seq) |-> IF i <= n THEN sub(i).vx ELSE x.seq[i]]),
         SliceV([i \in 1..Len(y.seq) |-> IF i <= n THEN sub(i).vy ELSE y.seq[i]]),
         UNION {c.res.diff : c \in subs}
           \cup {Append(path, IndexStep(i)) :
                   i \in (n + 1)..Max(Len(x.seq), Len(y.seq))})

(* faulty variant of compareAny: below the root, maps are compared as they
   are *)
compareAnyUntransformed(x, y, path) ==
    IF x.kind = "nil" \/ y.kind = "nil" \/ x.kind # y.kind
    THEN Result(x, y, IF x.kind = y.kind THEN {} ELSE {path})
    ELSE CASE x.kind = "map" -> compareMap(x, y, path)
           [] x.kind = "slice" -> compareSlice(x, y, path)
           [] OTHER -> Result(x, y, IF x.str = y.str THEN {} ELSE {path})

compareAny(x, y, path) ==
    IF x.kind = "nil" \/ y.kind = "nil" \/ x.kind # y.kind
    THEN Result(x, y, IF x.kind = y.kind THEN {} ELSE {path})
    ELSE CASE x.kind = "map" -> applyTransformer(x, y, path)
           [] x.kind = "slice" -> compareSlice(x, y, path)
           [] OTHER -> Result(x, y, IF x.str = y.str THEN {} ELSE {path})

SemanticDifference(d) ==
    [diff |-> d, prefix |-> "Semantic difference after formatting", cause |-> ""]

(* faulty variant of VerifyOutput: the parse error is not returned *)
VerifyOutputUnchecked(src, out) ==
    LET validate == ReadString(out)
        c == applyTransformer(src, validate.doc, <<>>)
    IN IF c.diff # {}
       THEN [err |-> SemanticDifference(c.diff), after |-> c.vx]
       ELSE [err |-> NoErr, after |-> c.vx]

(* returns [err, after]: the error, and the caller's map as the call leaves
   it *)
VerifyOutput(src, out) ==
    LET validate == ReadString(out)
        c == applyTransformer(src, validate.doc, <<>>)
    IN IF validate.err # NoErr
       THEN [err |-> validate.err, after |-> src]
       ELSE IF c.diff # {}
            THEN [err |-> SemanticDifference(c.diff), after |-> c.vx]
            ELSE [err |-> NoErr, after |-> c.vx]

----------------------------------------------------------------------------
(* inputs *)

MaxDepth == 2
MaxCalls == 2

sR == <<"R">>
sA == <<"A">>
sB == <<"B">>
sRA == <<"R", ".", "A">>
sAB == <<"A", ".", "B">>
sRAB == <<"R", ".", "A", ".", "B">>

(* payloads of the attribute getter: string shorthand and list form *)
Payloads ==
    {Scalar(sRA), SeqNode(<<Scalar(sR), Scalar(sA)>>),
     Scalar(sR), SeqNode(<<Scalar(sR), NullNode>>),
     Scalar(sRAB), SeqNode(<<Scalar(sR), Scalar(sAB)>>),
     SeqNode(<<Scalar(sR), Scalar(sA), Scalar(sB)>>),
     SeqNode(<<Scalar(sA), Scalar(sR)>>)}

BaseNodes ==
    {MapNode({Entry("Fn::GetAtt", p)}) : p \in Payloads}
      \cup {Tagged("GetAtt", Scalar(sRA)),
            Tagged("GetAtt", SeqNode(<<Scalar(sR), Scalar(sA)>>)),
            Tagged("Ref", Scalar(sR)),
            Tagged("Condition", Scalar(sR)),
            MapNode({Entry("Fn::GetAtt", Scalar(sRA)), Entry("b", Scalar(sR))}),
            Scalar(sRA),
            NullNode}

Wraps(n) == {MapNode({Entry("a", n)}), SeqNode(<<n>>), SeqNode(<<Scalar(sR), n>>)}

RECURSIVE Nodes(_)
Nodes(d) ==
    IF d = 0 THEN BaseNodes
    ELSE Nodes(d - 1) \cup UNION {Wraps(n) : n \in Nodes(d - 1)}

Texts == {Text(n) : n \in Nodes(MaxDepth)} \cup {BadText}
Streams == {[ok |-> TRUE, data |-> t] : t \in Texts}
              \cup {[ok |-> FALSE, data |-> BadText]}

----------------------------------------------------------------------------
(* the caller: reads a template once, then verifies formatted output
   against the document it got *)

Init ==
    /\ op = "init"
    /\ args = <<>>
    /\ ret = [err |-> NoErr, doc |-> NilV]
    /\ source = NilV
    /\ orig = NilV
    /\ prev = NilV
    /\ prevRet = [err |-> NoErr, doc |-> NilV]
    /\ calls = 0

Returned(name, a, r) ==
    /\ op' = name
    /\ args' = a
    /\ ret' = r
    /\ source' = r.doc
    /\ orig' = r.doc
    /\ prev' = r.doc
    /\ prevRet' = r
    /\ calls' = 0

DoReadString ==
    /\ op = "init"
    /\ \E t \in Texts : Returned("ReadString", t, ReadString(t))

DoRead ==
    /\ op = "init"
    /\ \E r \in Streams : Returned("Read", r, Read(r))

DoReadFile ==
    /\ op = "init"
    /\ \E f \in Streams : Returned("ReadFile", f, ReadFile(f))

Verified(out) ==
    LET v == VerifyOutput(source, out)
    IN /\ op' = "VerifyOutput"
       /\ args' = out
       /\ ret' = [err |-> v.err, doc |-> NilV]
       /\ source' = v.after
       /\ orig' = orig
       /\ prev' = source
       /\ prevRet' = ret
       /\ calls' = calls + 1

DoVerifyOutput ==
    /\ op \in {"ReadString", "Read", "ReadFile"}
    /\ ret.err = NoErr
    /\ \E t \in Texts : Verified(t)

DoVerifyAgain ==
    /\ op = "VerifyOutput"
    /\ calls < MaxCalls
    /\ Verified(args)

Next == DoReadString \/ DoRead \/ DoReadFile \/ DoVerifyOutput \/ DoVerifyAgain

Spec == Init /\ [][Next]_vars

----------------------------------------------------------------------------
(* the functions on their own: every string up to MaxStrLen characters as a
   payload, every registered tag name and two that are not registered *)

MaxStrLen == 3

Chars == {"R", "A", "."}
Strs == UNION {[1..n -> Chars] : n \in 0..MaxStrLen}
DotFree == {s \in Strs : \A i \in 1..Len(s) : s[i] # "."}

FnValues ==
    {StringV(s) : s \in Strs}
      \cup {NilV,
            SliceV(<<StringV(sR), StringV(sA)>>),
            SliceV(<<StringV(sRA)>>),
            MapV({Entry("a", StringV(sRA))})}

TagNames == {tags[i] : i \in 1..Len(tags)} \cup {"Condition", "Unknown"}

(* "!T s" and "!T [r, a]" *)
TaggedTexts ==
    {Text(Tagged(t, Scalar(s))) : t \in TagNames, s \in Strs}
      \cup {Text(Tagged(t, SeqNode(<<Scalar(ra[1]), Scalar(ra[2])>>))) :
              t \in TagNames,
              ra \in {p \in DotFree \X Strs : Len(p[1]) + Len(p[2]) < MaxStrLen}}

CallTransformGetAtt ==
    /\ op = "init"
    /\ \E in \in FnValues :
         Returned("transformGetAtt", in,
                  [err |-> NoErr, doc |-> transformGetAtt(in)])

CallUnmarshalYAMLTag ==
    /\ op = "init"
    /\ \E t \in TagNames, val \in FnValues \ {NilV} :
         Returned("UnmarshalYAMLTag", [tag |-> t, value |-> val],
                  [err |-> NoErr, doc |-> UnmarshalYAMLTag(t, val)])

ReadTagged ==
    /\ op = "init"
    /\ \E t \in TaggedTexts : Returned("ReadString", t, ReadString(t))

NextFn == CallTransformGetAtt \/ CallUnmarshalYAMLTag \/ ReadTagged

SpecFn == Init /\ [][NextFn]_vars

----------------------------------------------------------------------------
(* vocabulary of the properties *)

IsRead == op \in {"ReadString", "Read", "ReadFile"}
IsVerify == op = "VerifyOutput"

(* the candidate of the last VerifyOutput, parsed *)
Candidate == ReadString(args)
VerifyParsed == IsVerify /\ Candidate.err = NoErr

IsSemanticDifference(e) ==
    e.prefix = "Semantic difference after formatting" /\ e.diff # {}

HasDot(s) == \E i \in 1..Len(s) : s[i] = "."

(* x and y spell one attribute path: x is the string "R.A" and y the list
   [R, A], R the text up to the first "."; with dotless, also the string
   "R" without any "." and the list [R, nil] *)
SpellingPair(x, y, dotless) ==
    /\ x.kind = "string"
    /\ y.kind = "slice"
    /\ Len(y.seq) = 2
    /\ y.seq[1].kind = "string"
    /\ \/ /\ y.seq[2].kind = "string"
          /\ ~HasDot(y.seq[1].str)
          /\ x.str = y.seq[1].str \o <<".">> \o y.seq[2].str
       \/ /\ dotless
          /\ ~HasDot(x.str)
          /\ y.seq[1].str = x.str
          /\ y.seq[2] = NilV

(* a and b are the same document but for the spelling of the values under
   "Fn::GetAtt" *)
RECURSIVE SameUpToSpelling(_, _, _)
SameUpToSpelling(a, b, dotless) ==
    \/ a = b
    \/ /\ a.kind = "slice"
       /\ b.kind = "slice"
       /\ Len(a.seq) = Len(b.seq)
       /\ \A i \in 1..Len(a.seq) : SameUpToSpelling(a.seq[i], b.seq[i], dotless)
    \/ /\ a.kind = "map"
       /\ b.kind = "map"
       /\ KeysOf(a) = KeysOf(b)
       /\ \A key \in KeysOf(a) :
            \/ SameUpToSpelling(Get(a, key), Get(b, key), dotless)
            \/ /\ key = "Fn::GetAtt"
               /\ \/ SpellingPair(Get(a, key), Get(b, key), dotless)
                  \/ SpellingPair(Get(b, key), Get(a, key), dotless)

(* the paths to an "Fn::GetAtt" entry that a and b both have and spell
   differently *)
RECURSIVE SpelledDifferently(_, _, _)
SpelledDifferently(a, b, path) ==
    IF a.kind = "map" /\ b.kind = "map"
    THEN UNION {IF /\ key = "Fn::GetAtt"
                   /\ \/ SpellingPair(Get(a, key), Get(b, key), FALSE)
                      \/ SpellingPair(Get(b, key), Get(a, key), FALSE)
                THEN {Append(path, KeyStep(key))}
                ELSE SpelledDifferently(Get(a, key), Get(b, key),
                                        Append(path, KeyStep(key))) :
                  key \in KeysOf(a) \cap KeysOf(b)}
    ELSE IF a.kind = "slice" /\ b.kind = "slice"
         THEN UNION {SpelledDifferently(a.seq[i], b.seq[i],
                                        Append(path, IndexStep(i))) :
                       i \in 1..Min(Len(a.seq), Len(b.seq))}
         ELSE {}

(* no string is left under "Fn::GetAtt" anywhere in v *)
RECURSIVE NoShorthandLeft(_)
NoShorthandLeft(v) ==
    /\ v.kind = "map" =>
         \A e \in v.map : /\ e.k = "Fn::GetAtt" => e.v.kind # "string"
                          /\ NoShorthandLeft(e.v)
    /\ v.kind = "slice" => \A i \in 1..Len(v.seq) : NoShorthandLeft(v.seq[i])

(* some string is under "Fn::GetAtt" below a slice in v *)
RECURSIVE ShorthandAt(_, _)
ShorthandAt(v, inSlice) ==
    \/ /\ v.kind = "map"
       /\ \E e \in v.map : \/ e.k = "Fn::GetAtt" /\ e.v.kind = "string" /\ inSlice
                           \/ ShorthandAt(e.v, inSlice)
    \/ /\ v.kind = "slice"
       /\ \E i \in 1..Len(v.seq) : ShorthandAt(v.seq[i], TRUE)

(* after differs from before at most in that values under "Fn::GetAtt" were
   replaced by their two-element form *)
RECURSIVE OnlyGetAttRewritten(_, _)
OnlyGetAttRewritten(before, after) ==
    \/ after = before
    \/ /\ before.kind = "slice"
       /\ after.kind = "slice"
       /\ Len(after.seq) = Len(before.seq)
       /\ \A i \in 1..Len(before.seq) :
            OnlyGetAttRewritten(before.seq[i], after.seq[i])
    \/ /\ before.kind = "map"
       /\ after.kind = "map"
       /\ KeysOf(after) = KeysOf(before)
       /\ \A key \in KeysOf(before) :
            \/ OnlyGetAttRewritten(Get(before, key), Get(after, key))
            \/ /\ key = "Fn::GetAtt"
               /\ SpellingPair(Get(before, key), Get(after, key), TRUE)

----------------------------------------------------------------------------
(* C1: UnmarshalYAMLTag(T, V) returns a mapping with one entry; its key is T
   when T is "Ref" or "Condition" and "Fn::" followed by T otherwise; its
   value is transformGetAtt(V) when T is "GetAtt" and V otherwise. *)
C1_EncodedFunctionCall ==
    op = "UnmarshalYAMLTag" =>
        /\ ret.doc.kind = "map"
        /\ Cardinality(ret.doc.map) = 1
        /\ \A e \in ret.doc.map :
             /\ e.k = (IF args.tag \in {"Ref", "Condition"}
                       THEN args.tag
                       ELSE "Fn::" \o args.tag)
             /\ e.v = (IF args.tag = "GetAtt"
                       THEN transformGetAtt(args.value)
                       ELSE args.value)

(* "Condition" with a dotted string: the key is bare and the value is kept *)
C1_Witness ==
    /\ op = "UnmarshalYAMLTag"
    /\ args.tag = "Condition"
    /\ args.value.kind = "string"
    /\ HasDot(args.value.str)
    /\ ret.doc = MapV({Entry("Condition", args.value)})

(* C2: "!GetAtt R.A" and "!GetAtt [R, A]", R without ".", are both read as
   {"Fn::GetAtt": [R, A]}. *)
C2_BothSpellingsReadAlike ==
    (op = "ReadString" /\ args.root.tag = "GetAtt") =>
        \A r \in DotFree, a \in Strs :
            LET short == Text(Tagged("GetAtt", Scalar(r \o <<".">> \o a)))
                list == Text(Tagged("GetAtt", SeqNode(<<Scalar(r), Scalar(a)>>)))
            IN args \in {short, list} =>
                 /\ ret.err = NoErr
                 /\ ret.doc = MapV({Entry("Fn::GetAtt",
                                          SliceV(<<StringV(r), StringV(a)>>))})
                 /\ ReadString(short) = ReadString(list)

(* the shorthand, with a "." in the attribute name *)
C2_Witness ==
    /\ op = "ReadString"
    /\ args.root.tag = "GetAtt"
    /\ args.root.kind = "scalar"
    /\ args.root.str = <<"R", ".", ".">>
    /\ ret.doc = MapV({Entry("Fn::GetAtt",
                             SliceV(<<StringV(<<"R">>), StringV(<<".">>)>>))})

(* C3: of a string, transformGetAtt returns a sequence of two elements: the
   text before the first "." and all the text after it; of a string without
   ".", the string and nil; anything else it returns as it is. *)
C3_SplitOnFirstDot ==
    op = "transformGetAtt" =>
        IF args.kind = "string"
        THEN /\ ret.doc.kind = "slice"
             /\ Len(ret.doc.seq) = 2
             /\ ret.doc.seq[1].kind = "string"
             /\ IF HasDot(args.str)
                THEN /\ ret.doc.seq[2].kind = "string"
                     /\ ~HasDot(ret.doc.seq[1].str)
                     /\ args.str = ret.doc.seq[1].str \o <<".">> \o ret.doc.seq[2].str
                ELSE /\ ret.doc.seq[1].str = args.str
                     /\ ret.doc.seq[2] = NilV
        ELSE ret.doc = args

(* a string with two ".": the second one stays in the second element *)
C3_Witness ==
    /\ op = "transformGetAtt"
    /\ args.kind = "string"
    /\ Cardinality({i \in 1..Len(args.str) : args.str[i] = "."}) = 2
    /\ ret.doc.seq[2].kind = "string"
    /\ HasDot(ret.doc.seq[2].str)

(* C7, as stated: "!Ref X" and "!Condition X" are read as {"Ref": X} and
   {"Condition": X}, "!T X" for any other registered T as {"Fn::T": X} (the
   attribute getter with its value in two-element form), and both names with
   a bare key are registered with the parser. *)
C7_AsStated ==
    (op = "ReadString" /\ args.root.tag # "") =>
        LET T == args.root.tag
            X == DecodeNode(Tagged("", args.root))
        IN /\ T \in {"Ref", "Condition"} =>
                /\ ("!" \o T) \in tagUnmarshalers
                /\ ret.doc = MapV({Entry(T, X)})
           /\ (T \notin {"Ref", "Condition"} /\ ("!" \o T) \in tagUnmarshalers) =>
                ret.doc = MapV({Entry("Fn::" \o T,
                                      IF T = "GetAtt" THEN transformGetAtt(X) ELSE X)})

----------------------------------------------------------------------------
(* C4, as stated: VerifyOutput succeeds when the reference and the parsed
   candidate differ only in the spelling "R.A" against [R, A] of values
   under "Fn::GetAtt", and returns a semantic-difference error with a
   non-empty diff when they differ in anything else; the verdict is the same
   with the two documents swapped. *)
C4_AsStated ==
    VerifyParsed =>
        /\ SameUpToSpelling(prev, Candidate.doc, FALSE) => ret.err = NoErr
        /\ ~SameUpToSpelling(prev, Candidate.doc, FALSE) =>
               IsSemanticDifference(ret.err)
        /\ (applyTransformer(Candidate.doc, prev, <<>>).diff = {})
               <=> (ret.err = NoErr)

(* C4, amended: VerifyOutput succeeds exactly when the reference and the
   parsed candidate are the same but for values under "Fn::GetAtt" spelled
   as a string on one side and as the list transformGetAtt makes of that
   string on the other: "R.A" against [R, A], and also a string "R" without
   "." against [R, nil]; in every other case it returns a
   semantic-difference error with a non-empty diff; the verdict is the same
   with the two documents swapped. *)
C4_VerdictIsEqualityUpToSpelling ==
    VerifyParsed =>
        /\ SameUpToSpelling(prev, Candidate.doc, TRUE) => ret.err = NoErr
        /\ ~SameUpToSpelling(prev, Candidate.doc, TRUE) =>
               IsSemanticDifference(ret.err)
        /\ (applyTransformer(Candidate.doc, prev, <<>>).diff = {})
               <=> (ret.err = NoErr)

(* the reference spells a value as "R" and the candidate as [R, nil], and no
   difference is reported *)
C4_Witness ==
    /\ VerifyParsed
    /\ ret.err = NoErr
    /\ prev # Candidate.doc
    /\ SameUpToSpelling(prev, Candidate.doc, TRUE)
    /\ ~SameUpToSpelling(prev, Candidate.doc, FALSE)

(* C5: the rewrite of "Fn::GetAtt" values reaches the mappings at every
   depth, inside mappings and inside sequences: an entry spelled as a string
   on one side and as the two-element list on the other is never among the
   reported differences, wherever it is, and when no difference is reported
   no string is left under "Fn::GetAtt" anywhere in the reference. *)
C5_RewriteAtEveryDepth ==
    VerifyParsed =>
        /\ SpelledDifferently(prev, Candidate.doc, <<>>) \cap ret.err.diff = {}
        /\ ret.err = NoErr => NoShorthandLeft(source)

(* a string under "Fn::GetAtt" in a mapping in a sequence in the reference,
   spelled as a list in the candidate, and no difference reported *)
C5_Witness ==
    /\ VerifyParsed
    /\ ret.err = NoErr
    /\ ShorthandAt(prev, FALSE)
    /\ \E path \in SpelledDifferently(prev, Candidate.doc, <<>>) : Len(path) >= 3

(* C6: a document that ReadString returned, verified against a text that
   parses to the same document up to the spelling of "Fn::GetAtt" values, is
   accepted with no diff; so is a document verified against a re-read of
   itself, whatever its "Fn::GetAtt" values are. *)
C6_RoundTrip ==
    (VerifyParsed /\ calls = 1) =>
        /\ SameUpToSpelling(prev, Candidate.doc, FALSE) => ret.err = NoErr
        /\ Candidate.doc = prev => ret.err = NoErr /\ ret.err.diff = {}

(* a document with a "Fn::GetAtt" string without "." in a sequence, verified
   against its own text *)
C6_Witness ==
    /\ VerifyParsed
    /\ calls = 1
    /\ Candidate.doc = prev
    /\ ShorthandAt(prev, FALSE)
    /\ source # prev
    /\ ret.err = NoErr

(* C8: when the candidate does not parse, VerifyOutput returns the parse
   error of ReadString, an "Invalid YAML" error and never a semantic
   difference, and the reference is as it was. *)
C8_ParseFailureReturnsAtOnce ==
    (IsVerify /\ Candidate.err # NoErr) =>
        /\ ret.err = Candidate.err
        /\ ret.err.prefix = "Invalid YAML"
        /\ ret.err.diff = {}
        /\ source = prev

(* the candidate does not parse and the reference holds a string under
   "Fn::GetAtt" that a comparison would have rewritten *)
C8_Witness ==
    /\ IsVerify
    /\ Candidate.err # NoErr
    /\ ~NoShorthandLeft(prev)

(* C9: a read returns either the whole decoded document and no error, or an
   error and no document; a source that cannot be read gives "Unable to
   read ...", text the converter or the decoder rejects gives "Invalid
   YAML"; Read and ReadFile return what ReadString returns for the text
   they read. *)
C9_ReadOutcomes ==
    IsRead =>
        LET readable == op = "ReadString" \/ args.ok
            text == IF op = "ReadString" THEN args ELSE args.data
            decoded == DecodeNode(text.root)
            accepted == text.syntax = "ok" /\ decoded.kind \in {"map", "nil"}
        IN /\ \/ ret.err = NoErr /\ ret.doc = decoded /\ readable /\ accepted
              \/ ret.err # NoErr /\ ret.doc = NilV
           /\ ~readable =>
                ret.err.prefix = (IF op = "Read" THEN "Unable to read input"
                                  ELSE "Unable to read file")
           /\ (readable /\ ~accepted) => ret.err.prefix = "Invalid YAML"
           /\ (readable /\ accepted) => ret.err = NoErr
           /\ readable => ret = ReadString(text)

(* a file that can be read and holds a sequence at the top: the decoder
   rejects it *)
C9_Witness ==
    /\ op = "ReadFile"
    /\ args.ok
    /\ args.data.syntax = "ok"
    /\ args.data.root.kind = "sequence"
    /\ ret.err.prefix = "Invalid YAML"
    /\ ret.doc = NilV

(* C10: VerifyOutput leaves the reference with the same keys in every
   mapping and the same values, except that values under "Fn::GetAtt" may
   have been replaced by their two-element form; a second call with the
   same arguments changes nothing more and returns the same. *)
C10_OnlyGetAttValuesChange ==
    IsVerify =>
        /\ OnlyGetAttRewritten(prev, source)
        /\ OnlyGetAttRewritten(orig, source)
        /\ calls >= 2 => source = prev /\ ret = prevRet

(* the second call, after a first one that rewrote the reference and
   reported a difference *)
C10_Witness ==
    /\ IsVerify
    /\ calls = 2
    /\ IsSemanticDifference(ret.err)
    /\ source # orig
    /\ \E e \in orig.map : e.k # "Fn::GetAtt"

====
